---- MODULE Spec2Model ----
(***************************************************************************)
(* Stack canary of probe-run (src/src/canary.rs).                          *)
(*                                                                         *)
(* The host installs a canary (Canary::install -> paint_stack) by writing  *)
(* a 28-byte Thumb subroutine into target RAM, running it on the core and  *)
(* overwriting it afterwards; after the monitored program has run, the     *)
(* host reads the canary back (Canary::touched -> measure_stack).          *)
(*                                                                         *)
(* Target memory is modelled byte by byte, the core instruction by         *)
(* instruction (it executes whatever bytes the memory holds), the host     *)
(* one probe operation at a time.  32-bit register contents are kept as    *)
(* four little-endian bytes, so that 0xAAAAAAAA is representable; byte     *)
(* addresses of the modelled RAM are naturals below MemSize, far from the  *)
(* u32 limit, so that `start + size` never overflows here.                 *)
(***************************************************************************)
EXTENDS Integers, Sequences, FiniteSets, TLC

\* ------------------------------------------------------------ constants
CANARY_VALUE == 170

PAINT_SUBROUTINE_LENGTH == 28

MEASURE_SUBROUTINE_LENGTH == 0

\* --------------------------------------------------------------- bounds
\* Bytes of target RAM, addresses 0 .. MemSize-1.
MemSize == 292

\* Inputs of the pure-function specification.
MaxN == 40

MaxK == 9

MaxStackAvailable == 10400

\* --------------------------------------------------------------- inputs
\* Start addresses of the stack range (aligned and unaligned).
StackStarts == {0, 2, 4}

\* stack_available = end - start.  Small ones are painted whole in
\* measurement mode; the large ones give a detection-mode canary of at
\* least 28 bytes; 264 makes the paint loop run past the end of RAM.
StackAvailables == {0, 24, 28, 30, 32, 36, 256, 264, 290}

\* Reset vectors (addresses in flash, outside the modelled RAM).
ResetVectors == {1024, 2050}

\* Initial contents of every RAM byte.
FillBytes == {0, 85}

\* Bytes the monitored program leaves on the stack.
TouchBytes == {17}

VARIABLES
    stack_info,             \* target_info.stack_info: [present, start, end, data_below_stack]
    uses_heap,              \* elf.program_uses_heap()
    measure_arg,            \* install's measure_stack argument
    initial_stack_pointer,  \* elf.vector_table.initial_stack_pointer
    reset_vector,           \* where reset leaves the program counter
    mem,                    \* target RAM, byte address -> byte
    status,                 \* core: "running" | "halted" | "faulted"
    pc,                     \* core program counter
    reg,                    \* core registers r0..r3, each four LE bytes
    flag_z,                 \* APSR.Z
    hpc,                    \* host position in install / paint_stack / touched
    p_start,                \* paint_stack's start
    p_size,                 \* paint_stack's size
    previous_pc,            \* paint_stack's previous_pc
    install_result,         \* "none" | "ok_none" | "ok_some" | "err" | "panic"
    canary,                 \* the Canary returned by install
    touched_result,         \* "none" | "ok_true" | "ok_false" | "err" | "panic"
    touched_address,        \* touched's touched_address (-1: not computed, -2: None)
    min_stack_usage,        \* touched's min_stack_usage (-1: not computed, -2: None)
    ops,                    \* probe operations issued so far
    mem0,                   \* RAM when paint_stack was entered
    pc0,                    \* program counter when paint_stack was entered
    reg0,                   \* registers when paint_stack was entered
    flag_z0,                \* APSR.Z when paint_stack was entered
    pf_stage,               \* pure-function specification: stage
    pf_n,                   \* its first input
    pf_k,                   \* its second input
    pf_out                  \* its results

vars == <<stack_info, uses_heap, measure_arg, initial_stack_pointer, reset_vector,
          mem, status, pc, reg, flag_z, hpc, p_start, p_size, previous_pc,
          install_result, canary, touched_result, touched_address, min_stack_usage,
          ops, mem0, pc0, reg0, flag_z0, pf_stage, pf_n, pf_k, pf_out>>

cfgvars == <<stack_info, uses_heap, measure_arg, initial_stack_pointer, reset_vector>>

corevars == <<status, pc, reg, flag_z>>

snapvars == <<mem0, pc0, reg0, flag_z0>>

pfvars == <<pf_stage, pf_n, pf_k, pf_out>>

tvars == <<touched_result, touched_address, min_stack_usage>>

\* ------------------------------------------------------- pure functions
Min(a, b) == IF a <= b THEN a ELSE b

\* u32::to_le_bytes
to_le_bytes(n) ==
    <<n % 256, (n \div 256) % 256, (n \div 65536) % 256, (n \div 16777216) % 256>>

\* A register's value as a RAM address, -1 when it is none of the modelled RAM.
AddrOf(w) == IF w[3] = 0 /\ w[4] = 0 THEN w[1] + 256 * w[2] ELSE -1

\* 32-bit wrapping addition of a small constant to a register.
AddU32(w, k) ==
    LET s1 == w[1] + k
        s2 == w[2] + (s1 \div 256)
        s3 == w[3] + (s2 \div 256)
        s4 == w[4] + (s3 \div 256)
    IN  <<s1 % 256, s2 % 256, s3 % 256, s4 % 256>>

round_up(n, k) ==
    LET rem == n % k
    IN  IF rem = 0 THEN n ELSE n + 4 - rem

\* CanarySize without the 1 KiB cap.
CanarySize_NoCap(measure_stack, stack_available) ==
    IF measure_stack
    THEN stack_available
    ELSE round_up(stack_available \div 10, 4)

\* install's `size`.
CanarySize(measure_stack, stack_available) ==
    IF measure_stack
    THEN stack_available
    ELSE round_up(Min(1024, stack_available \div 10), 4)

\* The 28 bytes of the paint subroutine, indexed 1..28.
paint_subroutine(start, size) ==
    LET end == start + size
        s == to_le_bytes(start)
        e == to_le_bytes(end)
        CV == CANARY_VALUE
    IN  <<3, 72,      \* 0x03 0x48  ldr r0, [pc, #12]
          4, 73,      \* 0x04 0x49  ldr r1, [pc, #16]
          4, 74,      \* 0x04 0x4a  ldr r2, [pc, #16]
          129, 66,    \* 0x81 0x42  cmp r1, r0
          1, 208,     \* 0x01 0xD0  beq.n <end>
          4, 192,     \* 0x04 0xC0  stmia r0!, {r2}
          251, 231,   \* 0xFB 0xE7  b.n <loop>
          0, 190,     \* 0x00 0xBE  bkpt 0
          s[1], s[2], s[3], s[4],
          e[1], e[2], e[3], e[4],
          CV, CV, CV, CV>>

\* PaintPreconditions without the alignment assertions of paint_subroutine.
PaintPreconditions_NoAlignment(start, size) ==
    PAINT_SUBROUTINE_LENGTH <= size

\* PaintPreconditions without paint_stack's assertion that the subroutine fits.
PaintPreconditions_NoFit(start, size) ==
    /\ (start + PAINT_SUBROUTINE_LENGTH) % 4 = 0
    /\ size % 4 = 0

\* The assertions of paint_stack and of paint_subroutine(start + 28, size).
PaintPreconditions(start, size) ==
    /\ PAINT_SUBROUTINE_LENGTH <= size
    /\ (start + PAINT_SUBROUTINE_LENGTH) % 4 = 0
    /\ size % 4 = 0

\* MemoryInterface::write_8: `bytes` (a sequence) to RAM at `addr`.
write_8(m, addr, bytes) ==
    [a \in DOMAIN m |->
        IF a >= addr /\ a < addr + Len(bytes) THEN bytes[a - addr + 1] ELSE m[a]]

\* measure_subroutine: `todo!()`, which panics whenever it is called.
measure_subroutine(start, size) == "todo"

\* measure_stack up to its first return or panic: [kind, addr] with kind
\* "panic" (the assertion), "some" (step 2a, Ok(Some(addr))) or "todo" (step 3
\* calls measure_subroutine, which panics; steps 4 and 5 are never reached).
measure_stack(m, start, size) ==
    IF ~(MEASURE_SUBROUTINE_LENGTH <= size)
    THEN [kind |-> "panic", addr |-> -1]
    ELSE
    LET subroutine_address == start + size - MEASURE_SUBROUTINE_LENGTH
        differing == {i \in 0..(MEASURE_SUBROUTINE_LENGTH - 1) :
                        m[subroutine_address + i] # CANARY_VALUE}
    IN  IF differing # {}
        THEN [kind |-> "some",
              addr |-> CHOOSE i \in differing : \A j \in differing : i <= j]
        ELSE [kind |-> measure_subroutine(start, size - PAINT_SUBROUTINE_LENGTH),
              addr |-> -1]

\* touched_verdict without the test of self.measure_stack.
touched_verdict_NoModeTest(c, ta, isp) ==
    LET usage == IF ta = -2 THEN -2 ELSE IF ta > isp THEN -3 ELSE isp - ta
        verdict == IF usage # -2 THEN "ok_true" ELSE "ok_false"
        returned == [result |-> verdict, touched_address |-> ta,
                     min_stack_usage |-> usage]
    IN  IF usage = -3
        THEN {returned, [result |-> "panic", touched_address |-> ta,
                         min_stack_usage |-> -1]}
        ELSE {returned}

\* Canary::touched after measure_stack returned Ok(ta) (ta = -2: None): the
\* possible [result, touched_address, min_stack_usage].  The u32 subtraction
\* `initial_stack_pointer - touched_address` underflows when the address is
\* above the stack pointer: a panic with overflow checks, a wrapped value
\* (written -3) without.
touched_verdict(c, ta, isp) ==
    LET usage == IF ta = -2 THEN -2 ELSE IF ta > isp THEN -3 ELSE isp - ta
        verdict == IF c.measure_stack
                   THEN "ok_false"
                   ELSE IF usage # -2 THEN "ok_true" ELSE "ok_false"
        returned == [result |-> verdict, touched_address |-> ta,
                     min_stack_usage |-> usage]
    IN  IF usage = -3
        THEN {returned, [result |-> "panic", touched_address |-> ta,
                         min_stack_usage |-> -1]}
        ELSE {returned}

\* Canary::touched once the probe read of measure_stack has succeeded.
touched(c, m, isp) ==
    LET ms == measure_stack(m, c.address, c.size)
    IN  IF ms.kind = "some"
        THEN touched_verdict(c, ms.addr, isp)
        ELSE {[result |-> "panic", touched_address |-> -1, min_stack_usage |-> -1]}

\* CanaryFootprint covering the subroutine's instructions only, not its
\* three literal words.
CanaryFootprint_Short == [i \in 1..(PAINT_SUBROUTINE_LENGTH - 12) |-> CANARY_VALUE]

\* [CANARY_VALUE; PAINT_SUBROUTINE_LENGTH]
CanaryFootprint == [i \in 1..PAINT_SUBROUTINE_LENGTH |-> CANARY_VALUE]

\* ------------------------------------------------------------- the core
\* One instruction of the core at program counter p: the next
\* [status, pc, reg, z, mem].  Only the encodings the paint subroutine is
\* made of are decoded; anything else, and any access outside RAM, faults.
Fault(m, p, r, z) == [status |-> "faulted", pc |-> p, reg |-> r, z |-> z, mem |-> m]

SignExtend(v, bits) == IF v >= 2 ^ (bits - 1) THEN v - 2 ^ bits ELSE v

RegOfList(list) == CASE list = 1 -> 0 [] list = 2 -> 1 [] list = 4 -> 2 [] list = 8 -> 3 [] OTHER -> -1

Exec(m, p, r, z) ==
    IF p % 2 # 0 \/ p < 0 \/ p + 1 >= MemSize
    THEN Fault(m, p, r, z)
    ELSE
    LET lo == m[p]
        hi == m[p + 1]
    IN  CASE hi >= 72 /\ hi <= 79 ->
                \* ldr Rt, [pc, #imm8*4]
                LET rt == hi - 72
                    addr == ((p + 4) \div 4) * 4 + lo * 4
                IN  IF rt > 3 \/ addr + 3 >= MemSize
                    THEN Fault(m, p, r, z)
                    ELSE [status |-> "running", pc |-> p + 2, z |-> z, mem |-> m,
                          reg |-> [r EXCEPT ![rt] =
                                      <<m[addr], m[addr + 1], m[addr + 2], m[addr + 3]>>]]
          [] hi = 66 /\ lo \div 64 = 2 ->
                \* cmp Rn, Rm
                LET rm == (lo \div 8) % 8
                    rn == lo % 8
                IN  IF rm > 3 \/ rn > 3
                    THEN Fault(m, p, r, z)
                    ELSE [status |-> "running", pc |-> p + 2, reg |-> r, mem |-> m,
                          z |-> (r[rn] = r[rm])]
          [] hi = 208 ->
                \* beq.n
                [status |-> "running", reg |-> r, z |-> z, mem |-> m,
                 pc |-> IF z THEN p + 4 + 2 * SignExtend(lo, 8) ELSE p + 2]
          [] hi >= 192 /\ hi <= 199 ->
                \* stmia Rn!, {Rt}
                LET rn == hi - 192
                    rt == RegOfList(lo)
                    addr == IF rn > 3 THEN -1 ELSE AddrOf(r[rn])
                IN  IF rn > 3 \/ rt < 0 \/ rt = rn \/ addr < 0 \/ addr % 4 # 0
                       \/ addr + 3 >= MemSize
                    THEN Fault(m, p, r, z)
                    ELSE [status |-> "running", pc |-> p + 2, z |-> z,
                          mem |-> write_8(m, addr, r[rt]),
                          reg |-> [r EXCEPT ![rn] = AddU32(r[rn], 4)]]
          [] hi >= 224 /\ hi <= 231 ->
                \* b.n
                [status |-> "running", reg |-> r, z |-> z, mem |-> m,
                 pc |-> p + 4 + 2 * SignExtend((hi - 224) * 256 + lo, 11)]
          [] hi = 190 ->
                \* bkpt
                [status |-> "halted", pc |-> p, reg |-> r, z |-> z, mem |-> m]
          [] OTHER -> Fault(m, p, r, z)

\* ----------------------------------------------------------------- Init
NoCanary ==
    [address |-> 0, size |-> 0, stack_available |-> 0,
     data_below_stack |-> FALSE, measure_stack |-> FALSE]

RegFiles ==
    {[i \in 0..3 |-> to_le_bytes(0)], [i \in 0..3 |-> to_le_bytes(4096 + i)]}

StackInfos ==
    {[present |-> FALSE, start |-> 0, end |-> 0, data_below_stack |-> FALSE]}
    \cup {[present |-> TRUE, start |-> s, end |-> s + a, data_below_stack |-> (s # 0)] :
            s \in StackStarts, a \in StackAvailables}

PfIdle ==
    /\ pf_stage = "off"
    /\ pf_n = 0
    /\ pf_k = 1
    /\ pf_out = <<0, 0>>

Init ==
    /\ stack_info \in StackInfos
    /\ stack_info.end <= MemSize
    /\ uses_heap \in BOOLEAN
    /\ measure_arg \in BOOLEAN
    /\ initial_stack_pointer = stack_info.end
    /\ reset_vector \in ResetVectors
    /\ \E f \in FillBytes : mem = [a \in 0..(MemSize - 1) |-> f]
    /\ status = "running"
    /\ pc = reset_vector + 8
    /\ reg \in RegFiles
    /\ flag_z = FALSE
    /\ hpc = "install"
    /\ p_start = 0
    /\ p_size = 0
    /\ previous_pc = 0
    /\ install_result = "none"
    /\ canary = NoCanary
    /\ touched_result = "none"
    /\ touched_address = -1
    /\ min_stack_usage = -1
    /\ ops = <<>>
    /\ mem0 = mem
    /\ pc0 = pc
    /\ reg0 = reg
    /\ flag_z0 = flag_z
    /\ PfIdle

\* -------------------------------------------------------------- install
Op(name, ok) == [op |-> name, ok |-> ok, core |-> status]

\* sess.core(0)?
SessCore ==
    /\ hpc = "install"
    /\ hpc' = "reset"
    /\ ops' = Append(ops, Op("core", TRUE))
    /\ UNCHANGED <<cfgvars, mem, corevars, p_start, p_size, previous_pc,
                   install_result, canary, tvars, snapvars, pfvars>>

\* core.reset_and_halt(TIMEOUT)?
ResetAndHalt ==
    /\ hpc = "reset"
    /\ hpc' = "decide"
    /\ status' = "halted"
    /\ pc' = reset_vector
    /\ ops' = Append(ops, Op("reset_and_halt", TRUE))
    /\ UNCHANGED <<cfgvars, mem, reg, flag_z, p_start, p_size, previous_pc,
                   install_result, canary, tvars, snapvars, pfvars>>

\* InstallDecide without the program_uses_heap test.
InstallDecide_NoHeapTest ==
    /\ hpc = "decide"
    /\ LET stack_start == stack_info.start
           stack_available == stack_info.end - stack_start
           size == CanarySize(measure_arg, stack_available)
       IN  IF ~stack_info.present
           THEN /\ install_result' = "ok_none"
                /\ hpc' = "returned"
                /\ UNCHANGED <<p_start, p_size, snapvars>>
           ELSE /\ p_start' = stack_start
                /\ p_size' = size
                /\ mem0' = mem
                /\ pc0' = pc
                /\ reg0' = reg
                /\ flag_z0' = flag_z
                /\ IF PaintPreconditions(stack_start, size)
                   THEN /\ hpc' = "p_write_sub"
                        /\ UNCHANGED install_result
                   ELSE /\ hpc' = "returned"
                        /\ install_result' = "panic"
    /\ UNCHANGED <<cfgvars, mem, corevars, previous_pc, canary, tvars, ops, pfvars>>

\* install from the stack_info match to the entry of paint_stack, whose
\* assertions (and those of paint_subroutine) panic before any probe
\* operation.
InstallDecide ==
    /\ hpc = "decide"
    /\ LET stack_start == stack_info.start
           stack_available == stack_info.end - stack_start
           size == CanarySize(measure_arg, stack_available)
       IN  IF ~stack_info.present \/ uses_heap
           THEN /\ install_result' = "ok_none"
                /\ hpc' = "returned"
                /\ UNCHANGED <<p_start, p_size, snapvars>>
           ELSE /\ p_start' = stack_start
                /\ p_size' = size
                /\ mem0' = mem
                /\ pc0' = pc
                /\ reg0' = reg
                /\ flag_z0' = flag_z
                /\ IF PaintPreconditions(stack_start, size)
                   THEN /\ hpc' = "p_write_sub"
                        /\ UNCHANGED install_result
                   ELSE /\ hpc' = "returned"
                        /\ install_result' = "panic"
    /\ UNCHANGED <<cfgvars, mem, corevars, previous_pc, canary, tvars, ops, pfvars>>

\* PaintWriteSubroutine painting from `start` instead of `start + 28`.
PaintWriteSubroutine_FromStart ==
    /\ hpc = "p_write_sub"
    /\ hpc' = "p_read_pc"
    /\ mem' = write_8(mem, p_start, paint_subroutine(p_start, p_size))
    /\ ops' = Append(ops, Op("write_8", TRUE))
    /\ UNCHANGED <<cfgvars, corevars, p_start, p_size, previous_pc,
                   install_result, canary, tvars, snapvars, pfvars>>

\* core.write_8(start, &subroutine)?
PaintWriteSubroutine ==
    /\ hpc = "p_write_sub"
    /\ hpc' = "p_read_pc"
    /\ mem' = write_8(mem, p_start,
                      paint_subroutine(p_start + PAINT_SUBROUTINE_LENGTH, p_size))
    /\ ops' = Append(ops, Op("write_8", TRUE))
    /\ UNCHANGED <<cfgvars, corevars, p_start, p_size, previous_pc,
                   install_result, canary, tvars, snapvars, pfvars>>

\* let previous_pc = core.read_core_reg(PC)?
PaintReadPc ==
    /\ hpc = "p_read_pc"
    /\ hpc' = "p_write_pc"
    /\ previous_pc' = pc
    /\ ops' = Append(ops, Op("read_core_reg", TRUE))
    /\ UNCHANGED <<cfgvars, mem, corevars, p_start, p_size,
                   install_result, canary, tvars, snapvars, pfvars>>

\* core.write_core_reg(PC, start)?
PaintWritePc ==
    /\ hpc = "p_write_pc"
    /\ hpc' = "p_run"
    /\ pc' = p_start
    /\ ops' = Append(ops, Op("write_core_reg", TRUE))
    /\ UNCHANGED <<cfgvars, mem, status, reg, flag_z, p_start, p_size, previous_pc,
                   install_result, canary, tvars, snapvars, pfvars>>

\* core.run()?
PaintRun ==
    /\ hpc = "p_run"
    /\ hpc' = "p_wait"
    /\ status' = "running"
    /\ ops' = Append(ops, Op("run", TRUE))
    /\ UNCHANGED <<cfgvars, mem, pc, reg, flag_z, p_start, p_size, previous_pc,
                   install_result, canary, tvars, snapvars, pfvars>>

\* core.run() has resumed the core at the subroutine.
HasRun == \E i \in 1..Len(ops) : ops[i].op = "run" /\ ops[i].ok

\* The core executes one instruction of whatever the program counter points
\* at.  It runs from core.run() until it halts, also when the host has
\* meanwhile given up waiting and returned the error; what it ran before the
\* reset is not modelled.
CoreStep ==
    /\ status = "running"
    /\ HasRun
    /\ hpc \in {"p_wait", "returned"}
    /\ LET nx == Exec(mem, pc, reg, flag_z)
       IN  /\ status' = nx.status
           /\ pc' = nx.pc
           /\ reg' = nx.reg
           /\ flag_z' = nx.z
           /\ mem' = nx.mem
    /\ UNCHANGED <<cfgvars, hpc, p_start, p_size, previous_pc,
                   install_result, canary, tvars, ops, snapvars, pfvars>>

\* PaintWaitHalted returning Ok whether or not the core has halted.
PaintWaitHalted_NoWait ==
    /\ hpc = "p_wait"
    /\ hpc' = "p_overwrite"
    /\ ops' = Append(ops, Op("wait_for_core_halted", TRUE))
    /\ UNCHANGED <<cfgvars, mem, corevars, p_start, p_size, previous_pc,
                   install_result, canary, tvars, snapvars, pfvars>>

\* core.wait_for_core_halted(TIMEOUT)? returning Ok
PaintWaitHalted ==
    /\ hpc = "p_wait"
    /\ status = "halted"
    /\ hpc' = "p_overwrite"
    /\ ops' = Append(ops, Op("wait_for_core_halted", TRUE))
    /\ UNCHANGED <<cfgvars, mem, corevars, p_start, p_size, previous_pc,
                   install_result, canary, tvars, snapvars, pfvars>>

\* core.write_8(start, &[CANARY_VALUE; PAINT_SUBROUTINE_LENGTH])?
PaintOverwrite ==
    /\ hpc = "p_overwrite"
    /\ hpc' = "p_restore_pc"
    /\ mem' = write_8(mem, p_start, CanaryFootprint)
    /\ ops' = Append(ops, Op("write_8", TRUE))
    /\ UNCHANGED <<cfgvars, corevars, p_start, p_size, previous_pc,
                   install_result, canary, tvars, snapvars, pfvars>>

\* PaintRestorePc without the write of the program counter.
PaintRestorePc_NoRestore ==
    /\ hpc = "p_restore_pc"
    /\ hpc' = "installed"
    /\ ops' = ops
    /\ install_result' = "ok_some"
    /\ canary' = [address |-> stack_info.start,
                  size |-> p_size,
                  stack_available |-> stack_info.end - stack_info.start,
                  data_below_stack |-> stack_info.data_below_stack,
                  measure_stack |-> measure_arg]
    /\ UNCHANGED <<cfgvars, mem, corevars, p_start, p_size, previous_pc,
                   tvars, snapvars, pfvars>>

\* core.write_core_reg(PC, previous_pc)?; Ok(()) and install's Ok(Some(Canary {..}))
PaintRestorePc ==
    /\ hpc = "p_restore_pc"
    /\ hpc' = "installed"
    /\ pc' = previous_pc
    /\ ops' = Append(ops, Op("write_core_reg", TRUE))
    /\ install_result' = "ok_some"
    /\ canary' = [address |-> stack_info.start,
                  size |-> p_size,
                  stack_available |-> stack_info.end - stack_info.start,
                  data_below_stack |-> stack_info.data_below_stack,
                  measure_stack |-> measure_arg]
    /\ UNCHANGED <<cfgvars, mem, status, reg, flag_z, p_start, p_size, previous_pc,
                   tvars, snapvars, pfvars>>

\* The probe operation the host is at, by position.
OpAt(h) ==
    CASE h = "install" -> "core"
      [] h = "reset" -> "reset_and_halt"
      [] h = "p_write_sub" -> "write_8"
      [] h = "p_read_pc" -> "read_core_reg"
      [] h = "p_write_pc" -> "write_core_reg"
      [] h = "p_run" -> "run"
      [] h = "p_wait" -> "wait_for_core_halted"
      [] h = "p_overwrite" -> "write_8"
      [] h = "p_restore_pc" -> "write_core_reg"
      [] OTHER -> "none"

\* InstallProbeFail trying the failed operation again instead of returning.
InstallProbeFail_Retry ==
    /\ OpAt(hpc) # "none"
    /\ Len(ops) < 12
    /\ ops' = Append(ops, Op(OpAt(hpc), FALSE))
    /\ UNCHANGED <<cfgvars, mem, corevars, hpc, p_start, p_size, previous_pc,
                   install_result, canary, tvars, snapvars, pfvars>>

\* Any `?` of install and paint_stack: the operation fails (for
\* wait_for_core_halted also by timeout) and the error is returned.
InstallProbeFail ==
    /\ OpAt(hpc) # "none"
    /\ hpc' = "returned"
    /\ install_result' = "err"
    /\ ops' = Append(ops, Op(OpAt(hpc), FALSE))
    /\ UNCHANGED <<cfgvars, mem, corevars, p_start, p_size, previous_pc,
                   canary, tvars, snapvars, pfvars>>

\* ------------------------------------------------- the monitored program
\* Offsets of the canary the program may write to.
TouchOffsets(size) ==
    {x \in {0, 3, PAINT_SUBROUTINE_LENGTH, size - 1} : x >= 0 /\ x < size}

\* Between install and touched the run controller lets the program run
\* until it halts; its stack may have grown into the canary.
Program ==
    /\ hpc = "installed"
    /\ hpc' = "touched"
    /\ \E T \in SUBSET TouchOffsets(canary.size), b \in TouchBytes :
          mem' = [a \in DOMAIN mem |->
                    IF (a - canary.address) \in T THEN b ELSE mem[a]]
    /\ UNCHANGED <<cfgvars, corevars, p_start, p_size, previous_pc,
                   install_result, canary, tvars, ops, snapvars, pfvars>>

\* -------------------------------------------------------------- touched
\* Canary::touched when core.read_8 of measure_stack succeeds.
TouchedRead ==
    /\ hpc = "touched"
    /\ hpc' = "checked"
    /\ ops' = IF MEASURE_SUBROUTINE_LENGTH <= canary.size
              THEN Append(ops, Op("read_8", TRUE))
              ELSE ops
    /\ \E o \in touched(canary, mem, initial_stack_pointer) :
          /\ touched_result' = o.result
          /\ touched_address' = o.touched_address
          /\ min_stack_usage' = o.min_stack_usage
    /\ UNCHANGED <<cfgvars, mem, corevars, p_start, p_size, previous_pc,
                   install_result, canary, snapvars, pfvars>>

\* TouchedProbeFail taking the unreadable canary for an intact one.
TouchedProbeFail_Intact ==
    /\ hpc = "touched"
    /\ MEASURE_SUBROUTINE_LENGTH <= canary.size
    /\ hpc' = "checked"
    /\ ops' = Append(ops, Op("read_8", FALSE))
    /\ touched_result' = "ok_false"
    /\ UNCHANGED <<cfgvars, mem, corevars, p_start, p_size, previous_pc,
                   install_result, canary, touched_address, min_stack_usage,
                   snapvars, pfvars>>

\* core.read_8(subroutine_address, &mut canary)? fails.
TouchedProbeFail ==
    /\ hpc = "touched"
    /\ MEASURE_SUBROUTINE_LENGTH <= canary.size
    /\ hpc' = "checked"
    /\ ops' = Append(ops, Op("read_8", FALSE))
    /\ touched_result' = "err"
    /\ UNCHANGED <<cfgvars, mem, corevars, p_start, p_size, previous_pc,
                   install_result, canary, touched_address, min_stack_usage,
                   snapvars, pfvars>>

Next ==
    \/ SessCore
    \/ ResetAndHalt
    \/ InstallDecide
    \/ PaintWriteSubroutine
    \/ PaintReadPc
    \/ PaintWritePc
    \/ PaintRun
    \/ CoreStep
    \/ PaintWaitHalted
    \/ PaintOverwrite
    \/ PaintRestorePc
    \/ InstallProbeFail
    \/ Program
    \/ TouchedRead
    \/ TouchedProbeFail

Spec == Init /\ [][Next]_vars

\* The core, once resumed, keeps executing instructions; the host may stop
\* or fail at any point.
LiveSpec == Init /\ [][Next]_vars /\ WF_vars(CoreStep)

\* ------------------------------------- the pure functions on their own
\* round_up and install's size computation applied to bounded inputs; the
\* target and the host stay in one fixed state.
MainIdle ==
    /\ stack_info = [present |-> FALSE, start |-> 0, end |-> 0, data_below_stack |-> FALSE]
    /\ uses_heap = FALSE
    /\ measure_arg = FALSE
    /\ initial_stack_pointer = 0
    /\ reset_vector = 1024
    /\ mem = [a \in 0..(MemSize - 1) |-> 0]
    /\ status = "halted"
    /\ pc = 1024
    /\ reg = [i \in 0..3 |-> to_le_bytes(0)]
    /\ flag_z = FALSE
    /\ hpc = "idle"
    /\ p_start = 0
    /\ p_size = 0
    /\ previous_pc = 0
    /\ install_result = "none"
    /\ canary = NoCanary
    /\ touched_result = "none"
    /\ touched_address = -1
    /\ min_stack_usage = -1
    /\ ops = <<>>
    /\ mem0 = mem
    /\ pc0 = pc
    /\ reg0 = reg
    /\ flag_z0 = flag_z

mainvars == <<cfgvars, mem, corevars, hpc, p_start, p_size, previous_pc,
              install_result, canary, tvars, ops, snapvars>>

PfInit ==
    /\ MainIdle
    /\ pf_out = <<0, 0>>
    /\ \/ /\ pf_stage = "in"
          /\ pf_n \in 0..MaxN
          /\ pf_k \in 1..MaxK
       \/ /\ pf_stage = "avail"
          /\ pf_n \in 0..MaxStackAvailable
          /\ pf_k = 4

\* round_up(n, k)
PfRoundUp ==
    /\ pf_stage = "in"
    /\ pf_stage' = "once"
    /\ pf_out' = <<round_up(pf_n, pf_k), 0>>
    /\ UNCHANGED <<mainvars, pf_n, pf_k>>

\* round_up(round_up(n, k), k)
PfRoundUpAgain ==
    /\ pf_stage = "once"
    /\ pf_stage' = "twice"
    /\ pf_out' = <<pf_out[1], round_up(pf_out[1], pf_k)>>
    /\ UNCHANGED <<mainvars, pf_n, pf_k>>

\* install's size in detection mode, for stack_available = n
PfCanarySize ==
    /\ pf_stage = "avail"
    /\ pf_stage' = "sized"
    /\ pf_out' = <<CanarySize(FALSE, pf_n), 0>>
    /\ UNCHANGED <<mainvars, pf_n, pf_k>>

PfNext ==
    \/ PfRoundUp
    \/ PfRoundUpAgain
    \/ PfCanarySize

PureSpec == PfInit /\ [][PfNext]_vars

\* =============================================================== claims
\* The painted region of the installed canary, and what differs in it.
Region == canary.address .. (canary.address + canary.size - 1)

Differing == {x \in 0..(canary.size - 1) : mem[canary.address + x] # CANARY_VALUE}

LowestDiffering == CHOOSE x \in Differing : \A y \in Differing : x <= y

\* C1: whenever install returns a Canary, every byte of [address,
\* address+size) holds CANARY_VALUE, the 28 bytes that held the subroutine
\* included.
C1_RegionPainted ==
    (hpc = "installed" /\ install_result = "ok_some")
        => \A a \in Region : mem[a] = CANARY_VALUE

C1_Witness ==
    /\ hpc = "installed"
    /\ install_result = "ok_some"
    /\ canary.size > PAINT_SUBROUTINE_LENGTH
    /\ \A a \in Region : mem0[a] # CANARY_VALUE /\ mem[a] = CANARY_VALUE

\* C2: when paint_stack has returned successfully, no byte outside
\* [address, address+size) differs from what it was when paint_stack was
\* entered.
C2_NothingOutsideRegionModified ==
    (hpc = "installed" /\ install_result = "ok_some")
        => \A a \in DOMAIN mem : a \notin Region => mem[a] = mem0[a]

\* C3: when touched has read a region that differs from CANARY_VALUE at one
\* or more offsets, lowest X, it reports touched_address = address + X and
\* min_stack_usage = initial_stack_pointer - (address + X).
C3_ReportsLowestTouched ==
    (hpc = "checked" /\ touched_result # "err" /\ Differing # {})
        => /\ touched_address = canary.address + LowestDiffering
           /\ min_stack_usage =
                 initial_stack_pointer - (canary.address + LowestDiffering)

\* C4: in detection mode, when every probe operation succeeds, touched
\* returns true if and only if some byte of the region differs from
\* CANARY_VALUE, and false for an intact region.
C4_DetectionVerdict ==
    (hpc = "checked" /\ touched_result # "err" /\ ~canary.measure_stack)
        => touched_result = IF Differing # {} THEN "ok_true" ELSE "ok_false"

\* C5: in measurement mode touched never returns true: not in any run, and
\* not for any finding of measure_stack (None, or any address of the
\* region) and any initial stack pointer handed to its verdict.
C5_StackPointers ==
    {0, canary.address, canary.address + canary.size, initial_stack_pointer, MemSize}

C5_NeverTrueWhenMeasuring ==
    (install_result = "ok_some" /\ canary.measure_stack)
        => /\ touched_result # "ok_true"
           /\ \A ta \in {-2} \cup Region : \A isp \in C5_StackPointers :
                 \A o \in touched_verdict(canary, ta, isp) : o.result # "ok_true"

C5_Witness ==
    /\ hpc = "checked"
    /\ canary.measure_stack
    /\ touched_result \notin {"none", "err"}
    /\ Differing # {}

\* C6 (as claimed): after paint_stack returns successfully the program
\* counter and every other core register hold the values they had when
\* paint_stack was called.
C6_AllRegistersRestored ==
    (hpc = "installed" /\ install_result = "ok_some")
        => pc = pc0 /\ reg = reg0

\* C6 (amended): after paint_stack returns successfully the program counter
\* and the registers the subroutine does not use hold the values they had
\* when paint_stack was called; r0 and r1 hold the end address the
\* subroutine was given and r2 the pattern word.
C6_PcRestoredScratchClobbered ==
    (hpc = "installed" /\ install_result = "ok_some")
        => /\ pc = pc0
           /\ reg[3] = reg0[3]
           /\ reg[0] = to_le_bytes(p_start + PAINT_SUBROUTINE_LENGTH + p_size)
           /\ reg[1] = reg[0]
           /\ reg[2] = <<CANARY_VALUE, CANARY_VALUE, CANARY_VALUE, CANARY_VALUE>>

C6_Witness ==
    /\ hpc = "installed"
    /\ install_result = "ok_some"
    /\ pc = pc0
    /\ pc # p_start
    /\ \A i \in 0..2 : reg[i] # reg0[i]

\* What the host has done to the target, from the probe operations issued.
NoTargetWrites ==
    \A i \in 1..Len(ops) : ops[i].op \notin {"write_8", "write_core_reg", "run"}

PaintStarted == hpc \in {"p_write_sub", "p_read_pc", "p_write_pc", "p_run", "p_wait",
                         "p_overwrite", "p_restore_pc", "installed", "touched", "checked"}

Unsupported == ~stack_info.present \/ uses_heap

\* C7 (as claimed): if stack metadata is absent or the program uses a heap,
\* install returns Ok(None), having written neither target memory nor a
\* core register nor started the paint protocol.
C7_UnsupportedReturnsNoCanary ==
    (Unsupported /\ install_result # "none")
        => install_result = "ok_none" /\ NoTargetWrites /\ ~PaintStarted

\* C7 (amended): if stack metadata is absent or the program uses a heap,
\* install writes neither target memory nor a core register and never
\* starts the paint protocol; it returns Ok(None) when acquiring the core
\* and reset-and-halt succeed, and otherwise the error of the one that
\* failed.
C7_UnsupportedNoWrites ==
    Unsupported
        => /\ NoTargetWrites
           /\ ~PaintStarted
           /\ mem = mem0
           /\ install_result \in {"none", "ok_none", "err"}
           /\ install_result = "ok_none"
                 => /\ Len(ops) = 2
                    /\ \A i \in 1..2 : ops[i].ok
           /\ install_result = "err"
                 => /\ ~ops[Len(ops)].ok
                    /\ ops[Len(ops)].op \in {"core", "reset_and_halt"}
           /\ (hpc = "returned") = (install_result # "none")

C7_Witness ==
    /\ stack_info.present
    /\ uses_heap
    /\ install_result = "ok_none"
    /\ status = "halted"

\* C8: in detection mode the size install computes is at most 1024, a
\* multiple of 4 and at most stack_available.
C8_DetectionSize ==
    pf_stage = "sized"
        => /\ pf_out[1] <= 1024
           /\ pf_out[1] % 4 = 0
           /\ pf_out[1] <= pf_n

C8_Witness ==
    /\ pf_stage = "sized"
    /\ pf_n > 10240
    /\ pf_out[1] = 1024

\* C9: round_up(n, k) is a multiple of k and at least n: n itself when n is
\* a multiple of k, otherwise the next multiple of k above n.
C9_RoundUpNextMultiple ==
    pf_stage \in {"once", "twice"}
        => /\ pf_out[1] % pf_k = 0
           /\ pf_out[1] >= pf_n
           /\ pf_out[1] = IF pf_n % pf_k = 0
                          THEN pf_n
                          ELSE (pf_n \div pf_k + 1) * pf_k

\* C10: round_up(round_up(n, k), k) = round_up(n, k).
C10_RoundUpIdempotent ==
    pf_stage = "twice" => pf_out[2] = pf_out[1]

\* Probe operations of install and paint_stack (touched issues read_8 only).
InstallOps == {i \in 1..Len(ops) : ops[i].op # "read_8"}

\* C11: when a probe operation of the install sequence fails, install
\* returns the error and no Canary, and that operation is the last one
\* install issues.
C11_FailureAbortsInstall ==
    \A i \in InstallOps :
        ~ops[i].ok
            => /\ i = Len(ops)
               /\ install_result = "err"
               /\ hpc = "returned"
               /\ canary = NoCanary

C11_Witness ==
    /\ install_result = "err"
    /\ Len(ops) = 7
    /\ ops[7] = [op |-> "wait_for_core_halted", ok |-> FALSE, core |-> "running"]
    /\ mem # mem0

\* C12: when the probe read of touched fails, touched returns the error,
\* never false.
C12_UnreadableIsError ==
    (Len(ops) > 0 /\ ops[Len(ops)].op = "read_8" /\ ~ops[Len(ops)].ok)
        => touched_result = "err"

C12_Witness ==
    /\ hpc = "checked"
    /\ touched_result = "err"
    /\ ops[Len(ops)] = [op |-> "read_8", ok |-> FALSE, core |-> "halted"]
    /\ Differing = {}

\* paint_stack has been entered (its assertions passed) and has returned.
PaintReturned ==
    /\ hpc \in {"returned", "installed"}
    /\ \E i \in 1..Len(ops) : ops[i].op = "write_8"

\* C13: the core, halted when paint_stack was called, is halted when
\* paint_stack returns, on every return path.
C13_HaltedOnReturn ==
    [][(hpc' # hpc /\ PaintReturned') => status' = "halted"]_vars

\* C14: the host reads or writes target memory or a core register only
\* while the core is halted; after resuming the core it does nothing but
\* wait, and the footprint overwrite and the restore of the program counter
\* follow a wait that found the core halted.
C14_HostOnlyWhileHalted ==
    \A i \in 1..Len(ops) :
        /\ ops[i].op \in {"write_8", "read_8", "read_core_reg", "write_core_reg", "run"}
              => ops[i].core = "halted"
        /\ (ops[i].op = "run" /\ i < Len(ops))
              => ops[i + 1].op = "wait_for_core_halted"
        /\ (ops[i].op = "wait_for_core_halted" /\ ops[i].ok)
              => ops[i].core = "halted"
        /\ (ops[i].op = "wait_for_core_halted" /\ i < Len(ops))
              => ops[i].ok

C14_Witness ==
    /\ hpc = "checked"
    /\ Len(ops) = 10
    /\ \A i \in 1..10 : ops[i].ok
    /\ canary.size > PAINT_SUBROUTINE_LENGTH

\* C15: once paint_stack has resumed the core at the subroutine, the core
\* eventually halts (at the subroutine's breakpoint).
C15_PaintLoopHalts ==
    [](HasRun => <>(status = "halted"))

\* The address the core is about to store to (-1: the next instruction is no
\* store, or the core is not executing the subroutine).
NextStore ==
    IF status = "running" /\ HasRun /\ pc >= 0 /\ pc + 1 < MemSize
          /\ mem[pc + 1] >= 192 /\ mem[pc + 1] <= 195
    THEN AddrOf(reg[mem[pc + 1] - 192])
    ELSE -1

\* C16: no store of the running paint loop targets the 28 bytes that hold
\* the subroutine.
C16_NoStoreIntoSubroutine ==
    NextStore # -1
        => \/ NextStore + 3 < p_start
           \/ NextStore >= p_start + PAINT_SUBROUTINE_LENGTH

C16_Witness ==
    /\ NextStore = p_start + PAINT_SUBROUTINE_LENGTH
    /\ p_start > 0
    /\ hpc = "p_wait"

\* The arguments install hands to paint_stack violate its preconditions.
PreconditionViolated ==
    /\ stack_info.present
    /\ ~uses_heap
    /\ LET size == IF measure_arg
                   THEN stack_info.end - stack_info.start
                   ELSE CanarySize(FALSE, stack_info.end - stack_info.start)
       IN  \/ size < 28
           \/ stack_info.start % 4 # 0
           \/ size % 4 # 0

\* C17: when the region is smaller than the subroutine, or start or size is
\* no multiple of 4, paint_stack panics before any write to target memory,
\* any register write and any resume of the core, and returns no result.
C17_PreconditionFatal ==
    /\ PreconditionViolated
          => /\ NoTargetWrites
             /\ ~PaintStarted
             /\ mem = mem0
             /\ install_result \in {"none", "err", "panic"}
             /\ install_result = "err" => Len(ops) <= 2
             /\ hpc = "returned" => install_result \in {"err", "panic"}
    /\ install_result = "panic"
          => PreconditionViolated /\ Len(ops) = 2 /\ status = "halted"

C17_Witness ==
    /\ install_result = "panic"
    /\ stack_info.start % 4 # 0
    /\ p_size >= PAINT_SUBROUTINE_LENGTH
    /\ p_size % 4 = 0

\* C18: every Canary install returns has a 4-byte aligned address, a 4-byte
\* aligned size with 28 <= size <= stack_available, and in measurement
\* mode size = stack_available.
C18_CanaryInvariant ==
    install_result = "ok_some"
        => /\ canary.address % 4 = 0
           /\ canary.size % 4 = 0
           /\ canary.size <= canary.stack_available
           /\ canary.size >= PAINT_SUBROUTINE_LENGTH
           /\ canary.measure_stack => canary.size = canary.stack_available
           /\ canary.stack_available = stack_info.end - stack_info.start
           /\ canary.address = stack_info.start

C18_Witness ==
    /\ install_result = "ok_some"
    /\ ~canary.measure_stack
    /\ canary.size < canary.stack_available
    /\ canary.size > PAINT_SUBROUTINE_LENGTH

\* paint_stack has set the program counter to the subroutine.
PcRedirected ==
    \E i \in 1..Len(ops) :
        /\ ops[i].op = "write_core_reg"
        /\ ops[i].ok
        /\ \A j \in 1..(i - 1) : ops[j].op # "write_core_reg"

\* C19: once paint_stack has set the program counter to the subroutine, it
\* returns, on every path, with the saved program counter restored and not
\* pointing into the painted region.
C19_PcRestoredOnEveryExit ==
    [][(hpc' # hpc /\ PaintReturned' /\ PcRedirected')
          => /\ pc' = pc0
             /\ ~(pc' >= p_start /\ pc' < p_start + p_size)]_vars

\* C20: for every Canary install returned, when the probe read succeeds,
\* touched ends by returning a boolean; it never panics.
C20_TouchedReturnsVerdict ==
    (hpc = "checked" /\ touched_result # "err")
        => touched_result \in {"ok_true", "ok_false"}

====
